---- MODULE Spec2Model ----
(***************************************************************************)
(* Model of the churn feature-engineering notebook                         *)
(* product_demos/Data-Science/mlops-end2end/02-mlops-advanced/             *)
(* 01_feature_engineering.py.                                              *)
(*                                                                         *)
(* The notebook is a sequence of cells run top to bottom.  Each cell is    *)
(* one action; pc names the next cell to run.  The catalog (bronze table,  *)
(* label table, feature table, online table, registered functions) is the  *)
(* state that outlives a run.                                              *)
(*                                                                         *)
(* A cell value is a tagged record: Null, Str(s) or Dbl(n) / Lng(n).       *)
(* Doubles are modelled by integers (every value of the model is a whole   *)
(* number); the quotient computed by avg_price_increase is kept as an      *)
(* exact fraction.  A row is a function from column names to cells, a      *)
(* DataFrame is a set of rows (the primary key is unique), a Delta table   *)
(* written by merge is a bag of rows.                                      *)
(***************************************************************************)
EXTENDS Integers, Sequences, FiniteSets, Bags, TLC

VARIABLES
  pc,                        \* the next cell of the notebook
  run,                       \* number of the current run of the notebook
  error,                     \* the exception that stopped the run, or "none"
  printed,                   \* messages printed by the cells of this run
  bronze,                    \* catalog: the bronze table
  train_ratio, val_ratio, test_ratio,   \* split ratios, in units of 1/Scale
  telcoDF,                   \* notebook variable (line 41)
  this_time,                 \* notebook variable (line 145)
  churn_features_n_predsDF,  \* notebook variable (line 146)
  churn_featuresDF,          \* notebook variable (line 178)
  random,                    \* the temporary "random" column: customer -> draw
  label_table,               \* catalog: the label table (set of rows)
  label_constraints,         \* catalog: constraints of the label table
  online_table,              \* catalog: does the online table exist
  fs_registered,             \* feature store: is the feature table registered
  delta_exists,              \* catalog: does a table of that name exist
  feature_schema,            \* catalog: columns of the feature table
  feature_table,             \* catalog: rows of the feature table (a bag)
  functions,                 \* catalog: registered functions (a bag)
  writes,                    \* executions of the write_table cell in this run
  registrations,             \* executions of the function cell in this run
  result,                    \* the evaluation of avg_price_increase a query made
  previous_split             \* history: customer -> split the run before wrote

vars == << pc, run, error, printed, bronze, train_ratio, val_ratio, test_ratio,
           telcoDF, this_time, churn_features_n_predsDF, churn_featuresDF,
           random, label_table, label_constraints, online_table,
           fs_registered, delta_exists, feature_schema, feature_table,
           functions, writes, registrations, result, previous_split >>

-----------------------------------------------------------------------------
(* Bounds of the model *)

MaxCustomers == 2
MaxPartitions == 4
MaxRuns == 2
MaxWrites == 2
MaxRegistrations == 2
MaxTenure == 2
MaxCharge == 2

-----------------------------------------------------------------------------
(* Cells, rows and DataFrames *)

Null == [t |-> "null"]
Str(s) == [t |-> "string", s |-> s]
Dbl(n) == [t |-> "double", n |-> n]
Lng(n) == [t |-> "long", n |-> n]

isNull(c) == c.t = "null"

primary_key == "customer_id"
timestamp_col == "transaction_ts"
label_col == "churn"

ServiceCols == { "online_security", "online_backup", "device_protection",
                 "tech_support", "streaming_tv", "streaming_movies" }

withColumn(row, name, cell) ==
  [c \in (DOMAIN row) \cup {name} |-> IF c = name THEN cell ELSE row[c]]

drop(row, name) == [c \in (DOMAIN row) \ {name} |-> row[c]]

select(row, cols) == [c \in cols |-> row[c]]

EmptyDF == {}

-----------------------------------------------------------------------------
(* compute_service_features *)

\* Faulty variant of IsYes: every value but "No" counts.
IsNotNo(cell) == IF cell.t = "string" /\ cell.s = "No" THEN 0 ELSE 1

\* (s == "Yes").astype('double'): 1.0 where the value is the string "Yes",
\* 0.0 for any other string and for a missing value.
IsYes(cell) == IF cell.t = "string" /\ cell.s = "Yes" THEN 1 ELSE 0

RECURSIVE SumIsYes(_, _)
SumIsYes(row, cols) ==
  IF cols = {} THEN 0
  ELSE LET c == CHOOSE x \in cols : TRUE
       IN IsYes(row[c]) + SumIsYes(row, cols \ {c})

\* Faulty variant of num_optional_services: streaming_movies is left out.
num_optional_services_five(row) ==
  Dbl(SumIsYes(row, ServiceCols \ {"streaming_movies"}))

num_optional_services(row) == Dbl(SumIsYes(row, ServiceCols))

compute_service_features(inputDF) ==
  { withColumn(row, "num_optional_services", num_optional_services(row)) :
      row \in inputDF }

-----------------------------------------------------------------------------
(* clean_churn_features *)

\* data_psdf["senior_citizen"].map({1 : "Yes", 0 : "No"})
MapSeniorCitizen(cell) ==
  IF cell.t = "long" /\ cell.n = 1 THEN Str("Yes")
  ELSE IF cell.t = "long" /\ cell.n = 0 THEN Str("No")
  ELSE Null

\* The text values of total_charges the model draws, with the number each
\* parses to; a text that is no number has no entry.
ParsedText == [s \in {"0", "2"} |-> IF s = "0" THEN 0 ELSE 2]

\* astype "double": a double stays, a long widens, a text is parsed and
\* becomes null when it is no number.
AsDouble(cell) ==
  IF cell.t = "double" THEN cell
  ELSE IF cell.t = "long" THEN Dbl(cell.n)
  ELSE IF cell.t = "string" /\ cell.s \in DOMAIN ParsedText THEN Dbl(ParsedText[cell.s])
  ELSE Null

\* astype "string" (pandas StringDtype): a missing value stays missing.
AsString(cell) ==
  IF cell.t = "string" THEN cell
  ELSE Null

\* Faulty variant of fillna: total_charges is not filled.
fillnaButTotal(row, col) ==
  IF isNull(row[col]) /\ col # "total_charges"
  THEN withColumn(row, col, Dbl(0)) ELSE row

\* fillna({col: 0.0})
fillna(row, col) == IF isNull(row[col]) THEN withColumn(row, col, Dbl(0)) ELSE row

CleanRow(row) ==
  LET mapped == withColumn(row, "senior_citizen", MapSeniorCitizen(row["senior_citizen"]))
      typed == withColumn(
                 withColumn(mapped, "total_charges", AsDouble(mapped["total_charges"])),
                 "senior_citizen", AsString(mapped["senior_citizen"]))
  IN fillna(fillna(fillna(typed, "tenure"), "monthly_charges"), "total_charges")

clean_churn_features(dataDF) == { CleanRow(row) : row \in dataDF }

-----------------------------------------------------------------------------
(* Split labelling: F.rand(seed=42) and the when/otherwise chain *)

\* [0,1) is modelled by 0 .. Scale-1; a ratio x stands for x / Scale.
Scale == 10

seed == 42

\* The generator behind F.rand: each partition owns one generator, seeded
\* with seed + partition index, and every row of the partition takes the
\* next value of it.  A small congruential generator stands for Spark's
\* XORShiftRandom.
nextState(s) == (s * 45 + 15) % 64

hashSeed(s) == nextState(nextState(s % 64))

RECURSIVE stateAfter(_, _)
stateAfter(s, n) == IF n = 0 THEN s ELSE nextState(stateAfter(s, n - 1))

\* The draw of the row at position i (1-based) of partition p.
rand(p, i) == (stateAfter(hashSeed(seed + p), i) * Scale) \div 64

\* Faulty variant of SplitOf: the thresholds are inclusive.
SplitOfInclusive(r, train, val) ==
  IF r <= train THEN "train"
  ELSE IF r <= train + val THEN "validate"
  ELSE "test"

\* F.when(random < train_ratio, "train")
\*  .when(random < train_ratio + val_ratio, "validate").otherwise("test")
SplitOf(r, train, val) ==
  IF r < train THEN "train"
  ELSE IF r < train + val THEN "validate"
  ELSE "test"

\* How an execution lays the rows out: each row gets a partition and a
\* position in it; the positions of a partition's rows are 1 .. its size.
Layouts(keys) ==
  { f \in [keys -> [p : 0 .. MaxPartitions - 1, i : 1 .. Cardinality(keys)]] :
      \A k \in keys :
        LET same == { j \in keys : f[j].p = f[k].p }
        IN /\ { f[j].i : j \in same } = 1 .. Cardinality(same)
           /\ \A j \in same : f[j].i = f[k].i => j = k }

keyOf(row) == row[primary_key].n

LabelRow(row, r, train, val) ==
  drop(withColumn(withColumn(select(row, {primary_key, timestamp_col, label_col}),
                             "random", Dbl(r)),
                  "split", Str(SplitOf(r, train, val))),
       "random")

\* Faulty variant of dropLabel: the label stays in the features.
keepLabel(df) == df

\* churn_featuresDF = churn_features_n_predsDF.drop(label_col)
dropLabel(df) == { drop(row, label_col) : row \in df }

Schema(df) == UNION { DOMAIN row : row \in df }

-----------------------------------------------------------------------------
(* Feature store, catalog and the on-demand function *)

\* except Exception as e (line 242)
CaughtByOnlineHandler(exc) == TRUE

\* Faulty variant of CaughtByDropHandler: the handler names another exception.
CaughtKeyErrorOnly(exc) == exc = "KeyError"

\* except ValueError as ve (line 259)
CaughtByDropHandler(exc) == exc = "ValueError"

keyCols == {primary_key, timestamp_col}

\* Faulty variant of merge: the rows are appended.
appendRows(target, df) == target (+) SetToBag(df)

\* write_table(mode='merge'): an upsert keyed by the table's primary keys
\* (customer_id, transaction_ts); the target holds one row per key.
merge(target, df) ==
  LET srcKeys == { select(row, keyCols) : row \in df }
      kept == { row \in BagToSet(target) : select(row, keyCols) \notin srcKeys }
  IN [row \in kept |-> target[row]] (+) SetToBag(df)

avg_price_increase_def ==
  [name |-> "avg_price_increase", returns |-> "FLOAT", language |-> "PYTHON"]

\* CREATE OR REPLACE FUNCTION: ok, and the function bag afterwards.
CreateOrReplaceFunction(funcs, def) ==
  LET others == { f \in BagToSet(funcs) : f.name # def.name }
  IN [ok |-> TRUE, funcs |-> [f \in others |-> funcs[f]] (+) SetToBag({def})]

\* Faulty variant of avg_price_increase: the guard admits tenure 0.
avg_price_increase_ge(monthly_charges_in, tenure_in, total_charges_in) ==
  IF tenure_in >= 0
  THEN [num |-> monthly_charges_in * tenure_in - total_charges_in, den |-> tenure_in]
  ELSE [num |-> 0, den |-> 1]

\* The body of avg_price_increase; the quotient is kept as an exact
\* fraction num / den.
avg_price_increase(monthly_charges_in, tenure_in, total_charges_in) ==
  IF tenure_in > 0
  THEN [num |-> monthly_charges_in * tenure_in - total_charges_in, den |-> tenure_in]
  ELSE [num |-> 0, den |-> 1]

-----------------------------------------------------------------------------
(* Initial states *)

Customers == 1 .. MaxCustomers

Yes == Str("Yes")
No == Str("No")

BronzeRow(k, services, senior, tenure, monthly, total, churn) ==
  [c \in ServiceCols \cup {primary_key, "senior_citizen", "tenure",
                           "monthly_charges", "total_charges", label_col} |->
     IF c \in ServiceCols THEN services[c]
     ELSE IF c = primary_key THEN Lng(k)
     ELSE IF c = "senior_citizen" THEN senior
     ELSE IF c = "tenure" THEN tenure
     ELSE IF c = "monthly_charges" THEN monthly
     ELSE IF c = "total_charges" THEN total
     ELSE churn]

\* Two sample customers: a senior with every service, no tenure and a blank
\* total; a churn-free customer with one service.
SampleRows(k) ==
  { BronzeRow(k, [c \in ServiceCols |-> Yes], Lng(1), Null, Dbl(MaxCharge),
              Str(" "), Yes),
    BronzeRow(k, [c \in ServiceCols |-> IF c = "streaming_tv" THEN Yes ELSE No],
              Lng(0), Dbl(MaxTenure), Dbl(MaxCharge), Dbl(MaxCharge), No) }

SampleTables ==
  { { f[k] : k \in Customers } :
      f \in { g \in [Customers -> UNION { SampleRows(k) : k \in Customers }] :
                \A k \in Customers : g[k] \in SampleRows(k) } }

ServiceValues == { Yes, No, Str("No internet service"), Null }

\* One-row tables sweeping every combination of the six service columns.
ServiceSweep ==
  { { BronzeRow(1, services, Lng(0), Dbl(MaxTenure), Dbl(MaxCharge),
                Dbl(MaxCharge), No) } :
      services \in [ServiceCols -> ServiceValues] }

Doubles(max) == { Dbl(n) : n \in 0 .. max }

\* One-row tables sweeping the billing columns, missing values and text
\* totals included.
BillingSweep ==
  { { BronzeRow(1, [c \in ServiceCols |-> No], senior, tenure, monthly, total, No) } :
      senior \in { Lng(0), Lng(1), Null },
      tenure \in Doubles(MaxTenure) \cup { Null },
      monthly \in Doubles(MaxCharge) \cup { Null },
      total \in Doubles(MaxCharge) \cup { Null, Str(" "), Str("0"), Str("2") } }

\* The feature rows an earlier run at time ts left in the feature table.
FeatureRows(table, ts) ==
  dropLabel({ withColumn(row, timestamp_col, Dbl(ts)) :
                row \in clean_churn_features(compute_service_features(table)) })

InitNotebook ==
  /\ pc = "read"
  /\ run = 1
  /\ error = "none"
  /\ printed = {}
  /\ telcoDF = EmptyDF
  /\ this_time = 0
  /\ churn_features_n_predsDF = EmptyDF
  /\ churn_featuresDF = EmptyDF
  /\ random = << >>
  /\ writes = 0
  /\ registrations = 0
  /\ result = {}
  /\ previous_split = << >>

\* The catalog before the first run: the feature table is absent, present
\* in the feature store and as a Delta table, or present only as a Delta
\* table; the online table exists or not.
InitCatalog ==
  /\ label_table = {}
  /\ label_constraints = {}
  /\ functions = EmptyBag
  /\ online_table \in BOOLEAN
  /\ \E state \in { "absent", "feature_table", "delta_only" } :
       /\ fs_registered = (state = "feature_table")
       /\ delta_exists = (state # "absent")
       /\ feature_table = IF state = "absent" THEN EmptyBag
                          ELSE SetToBag(FeatureRows(bronze, 0))
       /\ feature_schema = IF state = "absent" THEN {}
                           ELSE Schema(FeatureRows(bronze, 0))

\* train_ratio, val_ratio, test_ratio = 0.7, 0.2, 0.1
InitRatios ==
  /\ train_ratio = 7
  /\ val_ratio = 2
  /\ test_ratio = 1

Init ==
  /\ bronze \in SampleTables
  /\ InitRatios
  /\ InitNotebook
  /\ InitCatalog

\* The feature functions on every service and billing combination.
InitFeatures ==
  /\ bronze \in ServiceSweep \cup BillingSweep
  /\ InitRatios
  /\ InitNotebook
  /\ InitCatalog

\* The split under any ratios with train_ratio + val_ratio <= 1.
InitSplit ==
  /\ bronze \in SampleTables
  /\ train_ratio \in 0 .. Scale
  /\ val_ratio \in 0 .. Scale - train_ratio
  /\ test_ratio = Scale - train_ratio - val_ratio
  /\ InitNotebook
  /\ InitCatalog

-----------------------------------------------------------------------------
(* The cells of the notebook *)

catalogVars == << label_table, label_constraints, online_table, fs_registered,
                  delta_exists, feature_schema, feature_table, functions >>

ratioVars == << train_ratio, val_ratio, test_ratio >>

\* telcoDF = spark.read.table(bronze_table_name)
ReadTable ==
  /\ pc = "read"
  /\ telcoDF' = bronze
  /\ pc' = "compute"
  /\ UNCHANGED << run, error, printed, bronze, ratioVars, this_time,
                  churn_features_n_predsDF, churn_featuresDF, random,
                  catalogVars, writes, registrations, result, previous_split >>

\* this_time = datetime.now().timestamp(): each run reads a later clock.
\* churn_features_n_predsDF =
\*   clean_churn_features(compute_service_features(telcoDF))
\*     .withColumn(timestamp_col, lit(this_time).cast("timestamp"))
ComputeFeatures ==
  /\ pc = "compute"
  /\ this_time' = run
  /\ churn_features_n_predsDF' =
       { withColumn(row, timestamp_col, Dbl(run)) :
           row \in clean_churn_features(compute_service_features(telcoDF)) }
  /\ pc' = "labels"
  /\ UNCHANGED << run, error, printed, bronze, ratioVars, telcoDF,
                  churn_featuresDF, random, catalogVars, writes,
                  registrations, result, previous_split >>

\* The label cell: select the key and the label, draw "random", derive
\* "split", drop "random", overwrite the label table; then drop the label
\* from the features.
ExtractLabels ==
  /\ pc = "labels"
  /\ \E layout \in Layouts({ keyOf(row) : row \in churn_features_n_predsDF }) :
       LET draw == [k \in DOMAIN layout |-> rand(layout[k].p, layout[k].i)]
           labels == { LabelRow(row, draw[keyOf(row)], train_ratio, val_ratio) :
                         row \in churn_features_n_predsDF }
       IN /\ random' = draw
          /\ label_table' = labels
          /\ previous_split' = [k \in { keyOf(row) : row \in label_table } |->
                                  (CHOOSE row \in label_table : keyOf(row) = k)["split"].s]
  /\ label_constraints' = {}
  /\ churn_featuresDF' = dropLabel(churn_features_n_predsDF)
  /\ pc' = "constraints"
  /\ UNCHANGED << run, error, printed, bronze, ratioVars, telcoDF, this_time,
                  churn_features_n_predsDF, online_table, fs_registered,
                  delta_exists, feature_schema, feature_table, functions,
                  writes, registrations, result >>

\* ALTER TABLE ... SET NOT NULL (twice), ADD CONSTRAINT ..._pk PRIMARY KEY
AddConstraints ==
  /\ pc = "constraints"
  /\ label_constraints' = { "customer_id NOT NULL", "transaction_ts NOT NULL",
                            "PRIMARY KEY(customer_id, transaction_ts)" }
  /\ pc' = "drop_online"
  /\ UNCHANGED << run, error, printed, bronze, ratioVars, telcoDF, this_time,
                  churn_features_n_predsDF, churn_featuresDF, random,
                  label_table, online_table, fs_registered, delta_exists,
                  feature_schema, feature_table, functions, writes,
                  registrations, result, previous_split >>

\* try: w.online_tables.get(...); w.online_tables.delete(...); print(...)
\* except Exception as e: pprint(e)
DropOnlineTable ==
  /\ pc = "drop_online"
  /\ IF online_table
     THEN /\ online_table' = FALSE
          /\ printed' = printed \cup { "Dropping online feature table" }
          /\ error' = error
          /\ pc' = "drop_feature"
     ELSE /\ online_table' = online_table
          /\ IF CaughtByOnlineHandler("NotFound")
             THEN /\ printed' = printed \cup { "NotFound" }
                  /\ error' = error
                  /\ pc' = "drop_feature"
             ELSE /\ printed' = printed
                  /\ error' = "NotFound"
                  /\ pc' = "failed"
  /\ UNCHANGED << run, bronze, ratioVars, telcoDF, this_time,
                  churn_features_n_predsDF, churn_featuresDF, random,
                  label_table, label_constraints, fs_registered, delta_exists,
                  feature_schema, feature_table, functions, writes,
                  registrations, result, previous_split >>

\* try: fe.drop_table(...); spark.sql("DROP TABLE IF EXISTS ..."); print(...)
\* except ValueError as ve: print("... doesn't exist")
\* fe.drop_table raises ValueError for a table the feature store does not
\* know; the DROP TABLE after it is then skipped.
DropFeatureTable ==
  /\ pc = "drop_feature"
  /\ IF fs_registered
     THEN /\ fs_registered' = FALSE
          /\ delta_exists' = FALSE
          /\ feature_schema' = {}
          /\ feature_table' = EmptyBag
          /\ printed' = printed \cup { "Dropping Feature Table" }
          /\ error' = error
          /\ pc' = "create"
     ELSE /\ UNCHANGED << fs_registered, delta_exists, feature_schema, feature_table >>
          /\ IF CaughtByDropHandler("ValueError")
             THEN /\ printed' = printed \cup { "Feature Table doesn't exist" }
                  /\ error' = error
                  /\ pc' = "create"
             ELSE /\ printed' = printed
                  /\ error' = "ValueError"
                  /\ pc' = "failed"
  /\ UNCHANGED << run, bronze, ratioVars, telcoDF, this_time,
                  churn_features_n_predsDF, churn_featuresDF, random,
                  label_table, label_constraints, online_table, functions,
                  writes, registrations, result, previous_split >>

\* fe.create_table(name, primary_keys, schema=churn_featuresDF.schema, ...):
\* fails when a table of that name exists, otherwise creates it empty.
CreateTable ==
  /\ pc = "create"
  /\ IF delta_exists
     THEN /\ error' = "TableAlreadyExists"
          /\ pc' = "failed"
          /\ UNCHANGED << fs_registered, delta_exists, feature_schema, feature_table >>
     ELSE /\ fs_registered' = TRUE
          /\ delta_exists' = TRUE
          /\ feature_schema' = Schema(churn_featuresDF)
          /\ feature_table' = EmptyBag
          /\ error' = error
          /\ pc' = "write"
  /\ UNCHANGED << run, printed, bronze, ratioVars, telcoDF, this_time,
                  churn_features_n_predsDF, churn_featuresDF, random,
                  label_table, label_constraints, online_table, functions,
                  writes, registrations, result, previous_split >>

\* fe.write_table(name, df=churn_featuresDF, mode='merge'); the cell may be
\* run again before the notebook moves on.
WriteTable ==
  /\ pc = "write"
  /\ feature_table' = merge(feature_table, churn_featuresDF)
  /\ writes' = writes + 1
  /\ pc' \in IF writes + 1 < MaxWrites THEN { "write", "register" } ELSE { "register" }
  /\ UNCHANGED << run, error, printed, bronze, ratioVars, telcoDF, this_time,
                  churn_features_n_predsDF, churn_featuresDF, random,
                  label_table, label_constraints, online_table, fs_registered,
                  delta_exists, feature_schema, functions, registrations,
                  result, previous_split >>

\* spark.sql(function_def); the cell may be run again.
RegisterFunction ==
  /\ pc = "register"
  /\ LET created == CreateOrReplaceFunction(functions, avg_price_increase_def)
     IN IF created.ok
        THEN /\ functions' = created.funcs
             /\ error' = error
             /\ pc' \in IF registrations + 1 < MaxRegistrations
                        THEN { "register", "done" } ELSE { "done" }
        ELSE /\ functions' = functions
             /\ error' = "FunctionAlreadyExists"
             /\ pc' = "failed"
  /\ registrations' = registrations + 1
  /\ UNCHANGED << run, printed, bronze, ratioVars, telcoDF, this_time,
                  churn_features_n_predsDF, churn_featuresDF, random,
                  label_table, label_constraints, online_table, fs_registered,
                  delta_exists, feature_schema, feature_table, writes, result,
                  previous_split >>

\* A query evaluates the registered function on its three arguments (one
\* query is modelled).
CallFunction ==
  /\ pc = "done"
  /\ result = {}
  /\ \E f \in BagToSet(functions) : f.name = "avg_price_increase"
  /\ \E m \in 0 .. MaxCharge, t \in -1 .. MaxTenure, tc \in 0 .. MaxCharge :
       result' = { [monthly_charges_in |-> m, tenure_in |-> t,
                    total_charges_in |-> tc,
                    value |-> avg_price_increase(m, t, tc)] }
  /\ UNCHANGED << pc, run, error, printed, bronze, ratioVars, telcoDF, this_time,
                  churn_features_n_predsDF, churn_featuresDF, random,
                  catalogVars, writes, registrations, previous_split >>

\* The notebook is run again from the top (restartPython clears its
\* variables); the catalog stays.
Rerun ==
  /\ pc \in { "done", "failed" }
  /\ run < MaxRuns
  /\ run' = run + 1
  /\ pc' = "read"
  /\ error' = "none"
  /\ printed' = {}
  /\ telcoDF' = EmptyDF
  /\ churn_features_n_predsDF' = EmptyDF
  /\ churn_featuresDF' = EmptyDF
  /\ random' = << >>
  /\ writes' = 0
  /\ registrations' = 0
  /\ result' = {}
  /\ UNCHANGED << bronze, ratioVars, this_time, catalogVars, previous_split >>

Next ==
  \/ ReadTable
  \/ ComputeFeatures
  \/ ExtractLabels
  \/ AddConstraints
  \/ DropOnlineTable
  \/ DropFeatureTable
  \/ CreateTable
  \/ WriteTable
  \/ RegisterFunction
  \/ Rerun

Spec == Init /\ [][Next]_vars

\* One run of the notebook, followed by queries that evaluate the function.
NextFunction ==
  \/ ReadTable
  \/ ComputeFeatures
  \/ ExtractLabels
  \/ AddConstraints
  \/ DropOnlineTable
  \/ DropFeatureTable
  \/ CreateTable
  \/ WriteTable
  \/ RegisterFunction
  \/ CallFunction

SpecFunction == Init /\ [][NextFunction]_vars

\* Runs that start from a catalog in which the feature table, when it
\* exists, is known to the feature store.
InitRegistered ==
  /\ Init
  /\ fs_registered = delta_exists

SpecRegistered == InitRegistered /\ [][Next]_vars

NextFeatures ==
  \/ ReadTable
  \/ ComputeFeatures

SpecFeatures == InitFeatures /\ [][NextFeatures]_vars

NextSplit ==
  \/ ReadTable
  \/ ComputeFeatures
  \/ ExtractLabels

SpecSplit == InitSplit /\ [][NextSplit]_vars

-----------------------------------------------------------------------------
(* Properties *)

YesCount(row, cols) == Cardinality({ c \in cols : row[c] = Yes })

\* The row of telcoDF a computed row comes from.
InputOf(out) == CHOOSE row \in telcoDF : keyOf(row) = keyOf(out)

\* C1: for every row, num_optional_services is the number of the six tracked
\* service columns equal to "Yes"; it lies in 0 .. 6, is 6 when all six are
\* "Yes" and 0 when all six are "No".
C1_CountsYesValues ==
  \A row \in churn_features_n_predsDF :
    /\ row["num_optional_services"] = Dbl(YesCount(row, ServiceCols))
    /\ row["num_optional_services"].n \in 0 .. 6
    /\ (\A c \in ServiceCols : row[c] = Yes) => row["num_optional_services"] = Dbl(6)
    /\ (\A c \in ServiceCols : row[c] = No) => row["num_optional_services"] = Dbl(0)

C1_Witness ==
  \E row \in churn_features_n_predsDF :
    /\ \A c \in ServiceCols : row[c] = Yes
    /\ row["num_optional_services"] = Dbl(6)

\* C5: a tracked column holding anything other than "Yes" (another text, or
\* no value) adds nothing to the count and raises no error: the count is
\* the number of the remaining columns equal to "Yes".
C5_OtherValuesAddNothing ==
  /\ error = "none"
  /\ pc = "labels" => Cardinality(churn_features_n_predsDF) = Cardinality(telcoDF)
  /\ \A row \in churn_features_n_predsDF :
       \A c \in ServiceCols :
         row[c] # Yes =>
           row["num_optional_services"] = Dbl(YesCount(row, ServiceCols \ {c}))

C5_Witness ==
  \E row \in churn_features_n_predsDF :
    /\ row["online_security"] = Null
    /\ row["online_backup"] = Str("No internet service")
    /\ row["num_optional_services"] = Dbl(4)

\* C4: after cleaning, tenure, monthly_charges and total_charges are never
\* missing: a missing input is 0.0 in the output, and a present value (for
\* total_charges, the value the double conversion gives) is left unchanged.
C4_BillingNeverNull ==
  \A out \in churn_features_n_predsDF :
    /\ \A col \in { "tenure", "monthly_charges" } :
         /\ ~isNull(out[col])
         /\ isNull(InputOf(out)[col]) => out[col] = Dbl(0)
         /\ ~isNull(InputOf(out)[col]) => out[col] = InputOf(out)[col]
    /\ ~isNull(out["total_charges"])
    /\ isNull(InputOf(out)["total_charges"]) => out["total_charges"] = Dbl(0)
    /\ ~isNull(AsDouble(InputOf(out)["total_charges"])) =>
         out["total_charges"] = AsDouble(InputOf(out)["total_charges"])

C4_Witness ==
  \E out \in churn_features_n_predsDF :
    /\ isNull(InputOf(out)["tenure"])
    /\ isNull(InputOf(out)["total_charges"])
    /\ out["tenure"] = Dbl(0)
    /\ out["total_charges"] = Dbl(0)
    /\ out["monthly_charges"] = Dbl(MaxCharge)

LabelsOf(k) == { l \in label_table : keyOf(l) = k }

\* C2: once the label cell has run, every row has exactly one label row,
\* whose split is one of train / validate / test and is decided by the row's
\* one draw r: train if r < train_ratio, otherwise validate if
\* r < train_ratio + val_ratio, otherwise test; test_ratio plays no part.
C2_OneSplitPerRow ==
  DOMAIN random # {} =>
    \A row \in churn_features_n_predsDF :
      LET r == random[keyOf(row)]
      IN /\ r \in 0 .. Scale - 1
         /\ Cardinality(LabelsOf(keyOf(row))) = 1
         /\ \A l \in LabelsOf(keyOf(row)) :
              /\ l["split"].s \in { "train", "validate", "test" }
              /\ r < train_ratio => l["split"] = Str("train")
              /\ (r >= train_ratio /\ r < train_ratio + val_ratio) =>
                   l["split"] = Str("validate")
              /\ r >= train_ratio + val_ratio => l["split"] = Str("test")

C2_Witness ==
  /\ DOMAIN random # {}
  /\ train_ratio + val_ratio < Scale
  /\ \E l1, l2 \in label_table :
       /\ l1["split"] = Str("validate")
       /\ l2["split"] = Str("test")

\* C3: a second run with the same seed and the same rows gives every
\* customer the split the run before gave it, however the rows are laid out.
C3_SplitReproducible ==
  (pc = "constraints" /\ DOMAIN previous_split # {}) =>
    \A l \in label_table : l["split"].s = previous_split[keyOf(l)]

\* C6: a missing online table or feature table at drop time is caught and
\* reported, the run does not fail, and it goes on to create_table and
\* write_table.
C6_MissingTableTolerated ==
  [][ /\ (pc = "drop_online" /\ ~online_table) =>
           (pc' = "drop_feature" /\ error' = "none" /\ "NotFound" \in printed')
      /\ (pc = "drop_feature" /\ ~fs_registered /\ ~delta_exists) =>
           (/\ pc' = "create"
            /\ error' = "none"
            /\ "Feature Table doesn't exist" \in printed')
      /\ (pc = "create" /\ ~delta_exists) => (pc' = "write" /\ error' = "none")
      /\ pc = "write" => (pc' \in { "write", "register" } /\ writes' = writes + 1)
    ]_vars

C6_Witness ==
  /\ pc = "register"
  /\ error = "none"
  /\ { "NotFound", "Feature Table doesn't exist" } \subseteq printed
  /\ BagCardinality(feature_table) > 0

\* C7: running write_table again with the same rows leaves the feature
\* table, and its row count, as the first write left them.
C7_MergeIdempotent ==
  [][ (pc = "write" /\ writes >= 1) =>
        /\ feature_table' = feature_table
        /\ BagCardinality(feature_table') = BagCardinality(feature_table)
        /\ BagCardinality(feature_table') = Cardinality(churn_featuresDF)
    ]_vars

C7_Witness ==
  /\ writes >= 2
  /\ BagCardinality(feature_table) = Cardinality(churn_featuresDF)
  /\ BagCardinality(feature_table) > 0

\* C8: avg_price_increase returns monthly_charges - total_charges / tenure
\* when tenure > 0 and 0 otherwise, never dividing by zero; registering the
\* function again never fails and leaves one function of that definition.
C8_AvgPriceIncrease ==
  /\ \A q \in result :
       /\ q.value.den # 0
       /\ q.tenure_in > 0 =>
            q.value.num * q.tenure_in =
              (q.monthly_charges_in * q.tenure_in - q.total_charges_in) * q.value.den
       /\ q.tenure_in <= 0 => q.value.num = 0
  /\ error # "FunctionAlreadyExists"
  /\ registrations >= 1 =>
       /\ BagCardinality(functions) = 1
       /\ BagToSet(functions) = { avg_price_increase_def }

C8_Witness ==
  /\ registrations >= 2
  /\ \E q \in result : q.tenure_in > 0 /\ q.value.num < 0
  /\ BagCardinality(functions) = 1

\* C9: whatever the catalog held before the run, no table of the feature
\* table's name exists when create_table is called.
C9_NoTableAtCreate ==
  pc = "create" => ~delta_exists

\* C10: the feature table's schema and rows never hold the churn label; the
\* label table holds exactly customer_id, transaction_ts, churn and split;
\* and once a run has written both, they carry the same keys.
C10_LabelsApartFromFeatures ==
  /\ label_col \notin feature_schema
  /\ \A f \in BagToSet(feature_table) : label_col \notin DOMAIN f
  /\ \A l \in label_table :
       DOMAIN l = { primary_key, timestamp_col, label_col, "split" }
  /\ pc \in { "register", "done" } =>
       { select(l, keyCols) : l \in label_table } =
         { select(f, keyCols) : f \in BagToSet(feature_table) }

C10_Witness ==
  /\ pc = "done"
  /\ Cardinality(label_table) = MaxCustomers
  /\ BagCardinality(feature_table) = MaxCustomers
  /\ feature_schema # {}

====
